---- MODULE Spec2Model ----
(***************************************************************************)
(* A model of textlint-rule-no-dead-link (src/src/no-dead-link.js).        *)
(*                                                                         *)
(* A string that the rule parses (a URI, a file path, a glob pattern) is   *)
(* the record [segs, suffix]: segs is the string split at "/", suffix is   *)
(* its query/fragment tail ("" when it has none).  Text(u) is the string   *)
(* itself; lengths and messages are computed on Text(u).                   *)
(***************************************************************************)
EXTENDS Integers, Sequences, FiniteSets, TLC

VARIABLES
    opts,       \* the rule's options after Object.assign (line 138)
    filePath,   \* what getFilePath() returns for the linted document
    phase,      \* "traverse" until Document:exit fires, then "exit"
    visited,    \* the Str/Link nodes the traversal has handed to the rule
    URIs,       \* the occurrence list (line 201)
    checks,     \* checks[i]: the lint(URIs[i]) call: pc, uri, method, res
    requests,   \* requests[i]: the fetch calls of check i, with outcomes
    accesses,   \* accesses[i]: the fs.access calls of check i
    reports,    \* reports[i]: what check i handed to report()
    exitPromise \* the promise returned by the Document:exit handler

vars == <<opts, filePath, phase, visited, URIs, checks, requests, accesses,
          reports, exitPromise>>

-----------------------------------------------------------------------------
(* Bounds of the model *)

MaxNodes == 2

-----------------------------------------------------------------------------
(* JavaScript values *)

Null == [null |-> TRUE]
Undefined == [undefined |-> TRUE]
NonString == [number |-> 1]

Plain(s) == [segs |-> <<s>>, suffix |-> ""]
U(segs) == [segs |-> segs, suffix |-> ""]

IsString(v) == DOMAIN v = {"segs", "suffix"}

\* a slip of `!base`: only null counts as no base
Truthy_NotNull(v) == v # Null

\* ToBoolean(v), as `||` and `!` apply it
Truthy(v) == v # Null /\ v # Undefined /\ (IsString(v) => v # Plain(""))

RECURSIVE Join(_)
Join(segs) ==
    IF segs = <<>> THEN ""
    ELSE IF Len(segs) = 1 THEN segs[1]
    ELSE segs[1] \o "/" \o Join(Tail(segs))

Text(u) == Join(u.segs) \o u.suffix

\* the string split at "/", as minimatch sees it
Split(u) ==
    [k \in 1..Len(u.segs) |->
        IF k = Len(u.segs) THEN u.segs[k] \o u.suffix ELSE u.segs[k]]

-----------------------------------------------------------------------------
(* Pure helpers of the rule *)

Protocols == {"http:", "https:"}

\* URL.parse(uri).host
Host(u) ==
    IF Len(u.segs) >= 3 /\ u.segs[1] \in Protocols /\ u.segs[2] = ""
    THEN <<u.segs[3]>>
    ELSE <<>>

isRelative(uri) == Host(uri) = <<>> \/ Host(uri) = <<"">>

isAbsolute(uri) == Len(uri.segs) >= 2 /\ uri.segs[1] = ""

\* a slip of lines 37-40: the test of isRelative is inverted
isLocal_Inverted(uri) == IF isAbsolute(uri) THEN FALSE ELSE ~isRelative(uri)

isLocal(uri) == IF isAbsolute(uri) THEN TRUE ELSE isRelative(uri)

isRedirect(code) == code \in {301, 302, 303, 307, 308}

\* minimatch splits at runs of "/": no empty part but a leading one
RECURSIVE SlashSplit(_, _)
SlashSplit(segs, first) ==
    IF segs = <<>> THEN <<>>
    ELSE IF segs[1] = "" /\ ~first THEN SlashSplit(Tail(segs), FALSE)
    ELSE <<segs[1]>> \o SlashSplit(Tail(segs), FALSE)

\* parts a wildcard never matches (the option dot is off)
DotParts == {".", ".."}

\* one path part against one pattern part
SegMatch(s, p) == IF p = "*" THEN s # "" /\ s \notin DotParts ELSE s = p

RECURSIVE GlobMatch(_, _)
GlobMatch(s, p) ==
    IF p = <<>> THEN s = <<>>
    ELSE IF p[1] = "**"
         THEN \/ GlobMatch(s, Tail(p))
              \/ s # <<>> /\ s[1] \notin DotParts /\ GlobMatch(Tail(s), p)
         ELSE s # <<>> /\ SegMatch(s[1], p[1]) /\ GlobMatch(Tail(s), Tail(p))

minimatch(uri, pattern) ==
    GlobMatch(SlashSplit(Split(uri), TRUE), SlashSplit(Split(pattern), TRUE))

\* a slip of line 56: only the first pattern is tried
isIgnored_FirstOnly(uri, ignore) ==
    ignore # <<>> /\ minimatch(uri, ignore[1])

isIgnored(uri, ignore) ==
    \E k \in 1..Len(ignore) : minimatch(uri, ignore[k])

\* getURLOrigin: <<>> is null
getURLOrigin(u) ==
    IF Host(u) = <<>> THEN <<>>
    ELSE <<u.segs[1] \o "//" \o u.segs[3]>>

\* a slip of lines 170-175: the path is compared too
SelectMethod_WholeURI(uri) ==
    IF \E k \in 1..Len(opts.preferGET) : uri = opts.preferGET[k]
    THEN "GET"
    ELSE "HEAD"

\* lines 170-175
SelectMethod(uri) ==
    IF \E k \in 1..Len(opts.preferGET) :
           getURLOrigin(uri) = getURLOrigin(opts.preferGET[k])
    THEN "GET"
    ELSE "HEAD"

RECURSIVE RemoveDots(_, _)
RemoveDots(segs, out) ==
    IF segs = <<>> THEN out
    ELSE IF segs[1] = "."
         THEN RemoveDots(Tail(segs), IF Len(segs) = 1 THEN Append(out, "") ELSE out)
    ELSE IF segs[1] = ".."
         THEN RemoveDots(Tail(segs),
                  IF out = <<>> THEN out ELSE SubSeq(out, 1, Len(out) - 1))
    ELSE RemoveDots(Tail(segs), Append(out, segs[1]))

\* the leading segments that name the scheme and authority of a base
Authority(base) == IF Host(base) = <<>> THEN <<>> ELSE SubSeq(base.segs, 1, 3)

PathOf(base) == SubSeq(base.segs, Len(Authority(base)) + 1, Len(base.segs))

\* URL.resolve(base, uri) for two strings
Resolve(base, uri) ==
    IF Host(uri) # <<>> THEN uri
    ELSE IF uri.segs = <<"">>
         THEN [segs |-> base.segs,
               suffix |-> IF uri.suffix = "" THEN base.suffix ELSE uri.suffix]
    ELSE IF Len(uri.segs) >= 3 /\ uri.segs[1] = "" /\ uri.segs[2] = ""
         THEN [segs |-> <<(IF Host(base) = <<>> THEN "" ELSE base.segs[1])>>
                          \o Tail(uri.segs),
               suffix |-> uri.suffix]
    ELSE IF isAbsolute(uri)
         THEN [segs |-> (IF Host(base) = <<>> THEN <<"">> ELSE Authority(base))
                          \o RemoveDots(Tail(uri.segs), <<>>),
               suffix |-> uri.suffix]
    ELSE LET dir == SubSeq(PathOf(base), 1, Len(PathOf(base)) - 1)
             abs == dir # <<>> /\ dir[1] = ""
             merged == RemoveDots((IF abs THEN Tail(dir) ELSE dir) \o uri.segs, <<>>)
         IN  [segs |-> Authority(base) \o (IF abs THEN <<"">> ELSE <<>>) \o merged,
              suffix |-> uri.suffix]

-----------------------------------------------------------------------------
(* The documents, options and servers the model ranges over *)

UriA == U(<<"https:", "", "a.com", "x">>)
UriRel == U(<<".", "foo">>)
RemoteBase == U(<<"https:", "", "a.com", "docs", "">>)
DocPath == U(<<"", "docs", "a.md">>)
FinalURL == "https://b.org/new"

\* a node of the document: its type, the types of its ancestors, and for a
\* Str its source text, for a Link its url and raw source, as pieces
Nodes ==
    [ LinkA |-> [type |-> "Link", ancestors |-> {}, url |-> UriA,
                 raw |-> <<Plain("[t]("), UriA, Plain(")")>>],
      LinkRel |-> [type |-> "Link", ancestors |-> {}, url |-> UriRel,
                 raw |-> <<Plain("[up]("), UriRel, Plain(")")>>],
      LinkEscaped |-> [type |-> "Link", ancestors |-> {}, url |-> UriRel,
                 raw |-> <<Plain("[up](./f&#111;o)")>>],
      LinkEmpty |-> [type |-> "Link", ancestors |-> {}, url |-> Plain(""),
                 raw |-> <<Plain("[t]()")>>],
      LinkNoUrl |-> [type |-> "Link", ancestors |-> {}, url |-> Undefined,
                 raw |-> <<Plain("<a>t<"), Plain("a>")>>],
      LinkQuoted |-> [type |-> "Link", ancestors |-> {"BlockQuote"}, url |-> UriA,
                 raw |-> <<Plain("[t]("), UriA, Plain(")")>>],
      StrA |-> [type |-> "Str", ancestors |-> {},
                 text |-> <<Plain("see "), UriA, Plain(" or "), UriRel>>],
      StrInLink |-> [type |-> "Str", ancestors |-> {"Link"},
                 text |-> <<UriA>>] ]

NodeIds == DOMAIN Nodes

\* the order in which a traversal meets the nodes it holds; the nodes of one
\* place are the ways the document may write the link that stands there
DocumentOrder ==
    <<{"LinkA"}, {"StrA"}, {"LinkRel", "LinkEscaped", "LinkEmpty"}, {"LinkNoUrl"},
      {"LinkQuoted"}, {"StrInLink"}>>

Position(n) == CHOOSE k \in 1..Len(DocumentOrder) : n \in DocumentOrder[k]

\* n comes after every node already handed over, and the document has room
NextInDocument(n, seen) ==
    /\ \A m \in seen : Position(m) < Position(n)
    /\ Cardinality(seen) < MaxNodes

DEFAULT_OPTIONS ==
    [checkRelative |-> TRUE, baseURI |-> Null, ignore |-> <<>>, preferGET |-> <<>>]

IgnoreLists ==
    { <<>>,
      <<U(<<"https:", "", "b.org", "**">>), U(<<"https:", "", "a.com", "*">>)>>,
      <<U(<<"*", "foo">>), U(<<".", "foo">>)>> }

PreferLists ==
    { <<>>,
      <<U(<<"https:", "", "a.com">>)>>,
      <<U(<<"http:", "", "a.com">>), U(<<"https:", "", "a.com:8080", "x">>)>> }

Options ==
    [checkRelative : BOOLEAN, baseURI : {Null, RemoteBase, NonString},
     ignore : IgnoreLists, preferGET : PreferLists]

FilePaths == {Undefined, DocPath}

Statuses == {200, 301, 404}
Failures == {"ECONNREFUSED", "ETIMEDOUT"}

StatusText(s) ==
    CASE s = 200 -> "OK"
      [] s = 301 -> "Moved Permanently"
      [] s = 404 -> "Not Found"

\* a settled fetch: a response, or a rejection with an error
Response(status, url) ==
    [type |-> "response", status |-> status, statusText |-> StatusText(status),
     ok |-> (status >= 200 /\ status <= 299), url |-> url]
Thrown(message) == [type |-> "throw", message |-> message]
Pending == [type |-> "pending"]

-----------------------------------------------------------------------------
(* Extraction: the Str and Link handlers *)

HostsWithTLD == {"a.com", "b.org", "a.com:8080"}

\* does URI_REGEXP match the piece (as a whole)
RegexpMatches(piece) ==
    /\ Len(piece.segs) >= 3
    /\ piece.segs[1] \in Protocols \cup {""}
    /\ piece.segs[2] = ""
    /\ piece.segs[3] \in HostsWithTLD

\* text.replace(URI_REGEXP, (uri, index) => URIs.push({ node, uri, index }))
RECURSIVE Matches(_, _, _)
Matches(node, pieces, offset) ==
    IF pieces = <<>> THEN <<>>
    ELSE (IF RegexpMatches(pieces[1])
          THEN <<[node |-> node, uri |-> pieces[1], index |-> offset]>>
          ELSE <<>>)
         \o Matches(node, Tail(pieces), offset + Len(Text(pieces[1])))

\* String.prototype.indexOf on a string given as pieces: -1 when absent
RECURSIVE indexOf(_, _, _)
indexOf(pieces, url, offset) ==
    IF Text(url) = "" THEN offset
    ELSE IF pieces = <<>> THEN -1
    ELSE IF pieces[1] = url THEN offset
    ELSE indexOf(Tail(pieces), url, offset + Len(Text(pieces[1])))

\* x || 0
OrZero(x) == IF x = 0 THEN 0 ELSE x

\* a slip: unshift for push
push_Unshift(list, items) == items \o list

\* URIs.push(...items)
push(list, items) == list \o items

\* helper.isChildNode(node, [type])
isChildNode(n, type) == type \in Nodes[n].ancestors

StrPushes(n) ==
    IF isChildNode(n, "BlockQuote") THEN <<>>
    ELSE IF isChildNode(n, "Link") THEN <<>>
    ELSE Matches(n, Nodes[n].text, 0)

LinkPushes(n) ==
    IF isChildNode(n, "BlockQuote") THEN <<>>
    ELSE IF Nodes[n].url = Undefined THEN <<>>
    ELSE LET found == indexOf(Nodes[n].raw, Nodes[n].url, 0)
             index == OrZero(found)
         IN  <<[node |-> n, uri |-> Nodes[n].url, index |-> index]>>

-----------------------------------------------------------------------------
(* The probe and the verdict *)

ResolutionError ==
    "Unable to resolve the relative URI. Please check if the base URI is correctly specified."

NoCheck == [pc |-> "idle", uri |-> Undefined, method |-> "HEAD", res |-> Pending,
            results |-> <<>>]

Request(method, redirect, uri) ==
    [method |-> method, redirect |-> redirect, uri |-> Text(uri),
     compress |-> FALSE, outcome |-> Pending]

RuleError(node, message, index, fix) ==
    [node |-> node, message |-> message, index |-> index, fix |-> fix]

\* a slip of line 94: only "405 Method Not Allowed" sends the probe to GET
NeedsGET_Only405(res, method) == res.status = 405 /\ method = "HEAD"

\* line 94: a response that sends the probe to GET
NeedsGET(res, method) == ~res.ok /\ method = "HEAD"

\* a slip of line 106: a failed request is never retried
RetryOnThrow_Never(method) == FALSE

\* a slip of line 106: a failed request is retried whatever the method
RetryOnThrow_Always(method) == TRUE

\* line 106: a failed request that sends the probe to GET
RetryOnThrow(method) == method = "HEAD"

\* a slip of line 90: the message is taken from the final response
RedirectResult_FinalStatus(res, finalRes) ==
    [ok |-> finalRes.ok, redirected |-> TRUE, redirectTo |-> finalRes.url,
     message |-> ToString(finalRes.status) \o " " \o finalRes.statusText]

\* a slip of line 87: `ok` is taken from the first response
RedirectResult_FirstOk(res, finalRes) ==
    [ok |-> res.ok, redirected |-> TRUE, redirectTo |-> finalRes.url,
     message |-> ToString(res.status) \o " " \o res.statusText]

\* lines 86-91: the result of a redirected probe
RedirectResult(res, finalRes) ==
    [ok |-> finalRes.ok, redirected |-> TRUE, redirectTo |-> finalRes.url,
     message |-> ToString(res.status) \o " " \o res.statusText]

\* lines 98-101: the result of a probe that was not redirected
PlainResult(res) ==
    [ok |-> res.ok, redirected |-> FALSE, redirectTo |-> Undefined,
     message |-> ToString(res.status) \o " " \o res.statusText]

\* a slip of line 111: a failed probe counts as alive
FailedResult_Alive(message) ==
    [ok |-> TRUE, redirected |-> FALSE, redirectTo |-> Undefined,
     message |-> message]

\* lines 110-113 and 128-131: the result of a probe that failed
FailedResult(message) ==
    [ok |-> FALSE, redirected |-> FALSE, redirectTo |-> Undefined,
     message |-> message]

\* a slip of line 186: `if` for `else if`
Verdict_NoElse(item, uri, result) ==
    (IF ~result.ok
     THEN <<RuleError(item.node,
                      Text(uri) \o " is dead. (" \o result.message \o ")",
                      item.index, Null)>>
     ELSE <<>>)
    \o
    (IF result.redirected
     THEN <<RuleError(item.node,
                      Text(uri) \o " is redirected to " \o result.redirectTo
                         \o ". (" \o result.message \o ")",
                      item.index,
                      [range |-> <<item.index, item.index + Len(Text(uri))>>,
                       text |-> result.redirectTo])>>
     ELSE <<>>)

\* a slip of lines 182-186: `redirected` is tested before `ok`
Verdict_RedirectFirst(item, uri, result) ==
    IF result.redirected
    THEN <<RuleError(item.node,
                     Text(uri) \o " is redirected to " \o result.redirectTo
                        \o ". (" \o result.message \o ")",
                     item.index,
                     [range |-> <<item.index, item.index + Len(Text(uri))>>,
                      text |-> result.redirectTo])>>
    ELSE IF ~result.ok
    THEN <<RuleError(item.node,
                     Text(uri) \o " is dead. (" \o result.message \o ")",
                     item.index, Null)>>
    ELSE <<>>

\* lines 180-194: what lint reports for a probe result
Verdict(item, uri, result) ==
    IF ~result.ok
    THEN <<RuleError(item.node,
                     Text(uri) \o " is dead. (" \o result.message \o ")",
                     item.index, Null)>>
    ELSE IF result.redirected
    THEN <<RuleError(item.node,
                     Text(uri) \o " is redirected to " \o result.redirectTo
                        \o ". (" \o result.message \o ")",
                     item.index,
                     [range |-> <<item.index, item.index + Len(Text(uri))>>,
                      text |-> result.redirectTo])>>
    ELSE <<>>

\* a slip of line 152: the option is read the wrong way round
RelativeSkipped_Inverted(o) == o.checkRelative

\* line 152: relative URIs are left alone
RelativeSkipped(o) == ~o.checkRelative

\* lines 146-179: lint up to its first await.  What the call leaves behind:
\* the check, and the request, access and report it made on the way
LintStart(item) ==
    LET stop(pc, rep) ==
            [check |-> [NoCheck EXCEPT !.pc = pc], request |-> <<>>,
             access |-> <<>>, report |-> rep]
        probe(uri) ==
            LET method == SelectMethod(uri)
            IN  IF isLocal(uri)
                THEN [check |-> [NoCheck EXCEPT !.pc = "access", !.uri = uri,
                                                !.method = method],
                      request |-> <<>>,
                      access |-> <<[path |-> Join(uri.segs), outcome |-> Pending]>>,
                      report |-> <<>>]
                ELSE [check |-> [NoCheck EXCEPT !.pc = "fetch", !.uri = uri,
                                                !.method = method],
                      request |-> <<Request(method, "manual", uri)>>,
                      access |-> <<>>,
                      report |-> <<>>]
    IN  IF isIgnored(item.uri, opts.ignore) THEN stop("fulfilled", <<>>)
        ELSE IF isRelative(item.uri)
        THEN IF RelativeSkipped(opts) THEN stop("fulfilled", <<>>)
             ELSE LET base == IF Truthy(opts.baseURI) THEN opts.baseURI ELSE filePath
                  IN  IF ~Truthy(base)
                      THEN stop("fulfilled",
                                <<RuleError(item.node, ResolutionError, item.index, Null)>>)
                      ELSE IF ~IsString(base) THEN stop("rejected", <<>>)
                      ELSE probe(Resolve(base, item.uri))
        ELSE probe(item.uri)

\* Promise.all over the checks: rejected with the first rejection, fulfilled
\* when every check is; once settled it stays
PromiseAll(cs, before) ==
    IF before \in {"fulfilled", "rejected"} THEN before
    ELSE IF \E i \in DOMAIN cs : cs[i].pc = "rejected" THEN "rejected"
    ELSE IF \A i \in DOMAIN cs : cs[i].pc = "fulfilled" THEN "fulfilled"
    ELSE "pending"

-----------------------------------------------------------------------------
(* The state machine *)

Init ==
    /\ opts \in Options
    /\ filePath \in FilePaths
    /\ phase = "traverse"
    /\ visited = {}
    /\ URIs = <<>>
    /\ checks = <<>>
    /\ requests = <<>>
    /\ accesses = <<>>
    /\ reports = <<>>
    /\ exitPromise = "none"

\* the traversal hands a Str node to the rule (lines 204-221)
VisitStr(n) ==
    /\ phase = "traverse"
    /\ NextInDocument(n, visited)
    /\ Nodes[n].type = "Str"
    /\ visited' = visited \cup {n}
    /\ URIs' = push(URIs, StrPushes(n))
    /\ UNCHANGED <<opts, filePath, phase, checks, requests, accesses, reports,
                   exitPromise>>

\* the traversal hands a Link node to the rule (lines 223-243)
VisitLink(n) ==
    /\ phase = "traverse"
    /\ NextInDocument(n, visited)
    /\ Nodes[n].type = "Link"
    /\ visited' = visited \cup {n}
    /\ URIs' = push(URIs, LinkPushes(n))
    /\ UNCHANGED <<opts, filePath, phase, checks, requests, accesses, reports,
                   exitPromise>>

\* Document:exit (lines 245-247): URIs.map(lint) runs every lint call up to
\* its first await, then Promise.all joins them
DocumentExit ==
    /\ phase = "traverse"
    /\ phase' = "exit"
    /\ LET started == [i \in 1..Len(URIs) |-> LintStart(URIs[i])]
       IN  /\ checks' = [i \in 1..Len(URIs) |-> started[i].check]
           /\ requests' = [i \in 1..Len(URIs) |-> started[i].request]
           /\ accesses' = [i \in 1..Len(URIs) |-> started[i].access]
           /\ reports' = [i \in 1..Len(URIs) |-> started[i].report]
    /\ exitPromise' = PromiseAll(checks', "pending")
    /\ UNCHANGED <<opts, filePath, visited, URIs>>

\* the last request of check i settles with outcome o
Answered(i, o) ==
    [requests EXCEPT ![i][Len(requests[i])].outcome = o]

\* a slip: the checks share one place for what they report
Return_Shared(i, result) ==
    /\ checks' = [checks EXCEPT ![i].pc = "fulfilled",
                                ![i].results = Append(@, result)]
    /\ reports' = [reports EXCEPT ![1] = @ \o Verdict(URIs[i], checks[i].uri, result)]

\* the probe of check i returns result: lint reports and returns
Return(i, result) ==
    /\ checks' = [checks EXCEPT ![i].pc = "fulfilled",
                                ![i].results = Append(@, result)]
    /\ reports' = [reports EXCEPT ![i] = @ \o Verdict(URIs[i], checks[i].uri, result)]

\* isAliveURI(uri, 'GET') called from the HEAD attempt (lines 95, 107)
RetryWithGET(i, o) ==
    /\ checks' = [checks EXCEPT ![i].pc = "fetch", ![i].method = "GET",
                                ![i].res = Pending]
    /\ requests' = [Answered(i, o) EXCEPT
                       ![i] = Append(@, Request("GET", "manual", checks[i].uri))]
    /\ UNCHANGED reports

\* the await of line 78 settles
FetchSettles(i, o) ==
    /\ phase = "exit"
    /\ i \in DOMAIN checks
    /\ checks[i].pc = "fetch"
    /\ IF o.type = "response" /\ isRedirect(o.status)
       THEN /\ checks' = [checks EXCEPT ![i].pc = "follow", ![i].res = o]
            /\ requests' = [Answered(i, o) EXCEPT
                   ![i] = Append(@, Request(checks[i].method, "follow", checks[i].uri))]
            /\ UNCHANGED reports
       ELSE IF o.type = "response" /\ NeedsGET(o, checks[i].method)
       THEN RetryWithGET(i, o)
       ELSE IF o.type = "response"
       THEN /\ requests' = Answered(i, o)
            /\ Return(i, PlainResult(o))
       ELSE IF RetryOnThrow(checks[i].method)
       THEN RetryWithGET(i, o)
       ELSE /\ requests' = Answered(i, o)
            /\ Return(i, FailedResult(o.message))
    /\ exitPromise' = PromiseAll(checks', exitPromise)
    /\ UNCHANGED <<opts, filePath, phase, visited, URIs, accesses>>

\* the await of line 81 settles
FollowSettles(i, o) ==
    /\ phase = "exit"
    /\ i \in DOMAIN checks
    /\ checks[i].pc = "follow"
    /\ IF o.type = "response"
       THEN /\ requests' = Answered(i, o)
            /\ Return(i, RedirectResult(checks[i].res, o))
       ELSE IF RetryOnThrow(checks[i].method)
       THEN RetryWithGET(i, o)
       ELSE /\ requests' = Answered(i, o)
            /\ Return(i, FailedResult(o.message))
    /\ exitPromise' = PromiseAll(checks', exitPromise)
    /\ UNCHANGED <<opts, filePath, phase, visited, URIs, accesses>>

AccessError(path) == "ENOENT: no such file or directory, access '" \o path \o "'"

\* the await of line 122 settles: fs.access succeeded, or failed
AccessSettles(i, succeeded) ==
    /\ phase = "exit"
    /\ i \in DOMAIN checks
    /\ checks[i].pc = "access"
    /\ LET path == accesses[i][1].path
       IN  IF succeeded
           THEN /\ accesses' = [accesses EXCEPT ![i][1].outcome = [type |-> "ok"]]
                /\ Return(i, [ok |-> TRUE, redirected |-> FALSE,
                               redirectTo |-> Undefined, message |-> Undefined])
           ELSE /\ accesses' = [accesses EXCEPT
                                    ![i][1].outcome = Thrown(AccessError(path))]
                /\ Return(i, FailedResult(AccessError(path)))
    /\ exitPromise' = PromiseAll(checks', exitPromise)
    /\ UNCHANGED <<opts, filePath, phase, visited, URIs, requests>>

\* the texts a failing fetch of probe i can carry. The texts are names that
\* can be exchanged for one another: the first failure of a probe bears the
\* first of them, a later failure repeats it or differs from it
FailureTexts(i) ==
    IF \E k \in DOMAIN requests[i] : requests[i][k].outcome.type = "throw"
    THEN Failures
    ELSE {"ECONNREFUSED"}

\* what a request with manual redirects can settle with
ManualOutcomes(i) ==
    IF checks[i].pc # "fetch" THEN {}
    ELSE {Response(s, Text(checks[i].uri)) : s \in Statuses}
            \cup {Thrown(m) : m \in FailureTexts(i)}

\* what a request that follows redirects can settle with
FollowOutcomes(i) ==
    {Response(s, FinalURL) : s \in {200, 404}}
        \cup {Thrown(m) : m \in FailureTexts(i)}

Next ==
    \/ \E n \in NodeIds : VisitStr(n)
    \/ \E n \in NodeIds : VisitLink(n)
    \/ DocumentExit
    \/ \E i \in DOMAIN checks : \E o \in ManualOutcomes(i) : FetchSettles(i, o)
    \/ \E i \in DOMAIN checks : \E o \in FollowOutcomes(i) : FollowSettles(i, o)
    \/ \E i \in DOMAIN checks : \E b \in BOOLEAN : AccessSettles(i, b)

Spec == Init /\ [][Next]_vars

-----------------------------------------------------------------------------
(* Reading the history of a check *)

Occurrences == DOMAIN checks

\* check i made at least one fetch call: a remote occurrence
Remote(i) == requests[i] # <<>>

FirstMethod(i) == requests[i][1].method

\* the requests of check i made with method m that have got outcome kind t
Settled(i, m, t) ==
    {k \in DOMAIN requests[i] :
        requests[i][k].method = m /\ requests[i][k].outcome.type = t}

IssuedGET(i) ==
    \E k \in DOMAIN requests[i] :
        requests[i][k].method = "GET" /\ requests[i][k].uri = requests[i][1].uri

Success(status) == status >= 200 /\ status <= 299

\* the answer to the first request of check i is a response with this property
FirstResponse(i, P(_)) ==
    /\ Remote(i)
    /\ requests[i][1].outcome.type = "response"
    /\ P(requests[i][1].outcome.status)

DeadMessage(uri, text) == uri \o " is dead. (" \o text \o ")"

-----------------------------------------------------------------------------
(* C1: method fallback *)

\* C1 as stated: when the first request is a HEAD and its response has any
\* status outside 200-299, no diagnostic is reported, and the check does not
\* end, without a GET request to the same URI having been issued.
C1_Original ==
    \A i \in Occurrences :
        LET outside(st) == ~Success(st)
        IN  (FirstResponse(i, outside) /\ FirstMethod(i) = "HEAD"
                /\ (reports[i] # <<>> \/ checks[i].pc = "fulfilled"))
            => IssuedGET(i)

\* C1 (amended): when the first request is a HEAD and its response has a status
\* outside 200-299 that is not a redirect status, a GET request to the same URI
\* is issued as soon as that response arrives, hence before any diagnostic; and
\* if the response to that GET is successful, no diagnostic is reported.
C1_MethodFallback ==
    \A i \in Occurrences :
        LET failing(st) == ~Success(st) /\ st \notin {301, 302, 303, 307, 308}
        IN  (FirstResponse(i, failing) /\ FirstMethod(i) = "HEAD")
            => /\ IssuedGET(i)
               /\ requests[i][2].method = "GET"
               /\ requests[i][2].redirect = "manual"
               /\ requests[i][2].outcome.type = "pending" => reports[i] = <<>>
               /\ (requests[i][2].outcome.type = "response"
                     /\ Success(requests[i][2].outcome.status)) => reports[i] = <<>>

\* a HEAD answered 404, then the GET answered 200, and the check has ended
C1_Witness ==
    \E i \in Occurrences :
        /\ Len(requests[i]) = 2
        /\ requests[i][1].method = "HEAD"
        /\ requests[i][1].outcome.type = "response"
        /\ requests[i][1].outcome.status = 404
        /\ requests[i][2].method = "GET"
        /\ requests[i][2].outcome.type = "response"
        /\ requests[i][2].outcome.status = 200
        /\ checks[i].pc = "fulfilled"
        /\ reports[i] = <<>>

-----------------------------------------------------------------------------
(* C2: transport failure fallback *)

\* C2: when the first request is a HEAD and a HEAD request throws, a GET request
\* to the same URI is issued; if a request of the GET attempt throws too, exactly
\* one dead-link diagnostic is reported, with the failure text of the GET attempt
\* and not that of the HEAD attempt; the check is never rejected.
C2_TransportFallback ==
    \A i \in Occurrences :
        (Remote(i) /\ FirstMethod(i) = "HEAD" /\ Settled(i, "HEAD", "throw") # {})
        => /\ IssuedGET(i)
           /\ checks[i].pc # "rejected"
           /\ \A g \in Settled(i, "GET", "throw") :
                 \A h \in Settled(i, "HEAD", "throw") :
                    LET getText == requests[i][g].outcome.message
                        headText == requests[i][h].outcome.message
                    IN  /\ Len(reports[i]) = 1
                        /\ reports[i][1].message
                              = DeadMessage(requests[i][1].uri, getText)
                        /\ reports[i][1].fix = Null
                        /\ headText # getText
                             => reports[i][1].message
                                  # DeadMessage(requests[i][1].uri, headText)

\* the HEAD threw one error, the GET another, and the diagnostic is out
C2_Witness ==
    \E i \in Occurrences :
        /\ Len(requests[i]) = 2
        /\ requests[i][1].method = "HEAD"
        /\ requests[i][1].outcome = Thrown("ECONNREFUSED")
        /\ requests[i][2].method = "GET"
        /\ requests[i][2].outcome = Thrown("ETIMEDOUT")
        /\ Len(reports[i]) = 1

-----------------------------------------------------------------------------
(* C3: origin override *)

\* scheme, host and port of a URI with a host
SchemeHostPort(u) == SubSeq(u.segs, 1, 3)

HasHost(u) == Len(u.segs) >= 3 /\ u.segs[1] \in {"http:", "https:"} /\ u.segs[2] = ""

Preferred(u) ==
    \E k \in 1..Len(opts.preferGET) :
        /\ HasHost(opts.preferGET[k])
        /\ SchemeHostPort(opts.preferGET[k]) = SchemeHostPort(u)

\* C3: a remote occurrence whose origin equals the origin of an entry of
\* preferGET is first requested with GET and never with HEAD; a remote
\* occurrence whose origin matches no entry is first requested with HEAD.
C3_OriginOverride ==
    \A i \in Occurrences :
        Remote(i) =>
            IF Preferred(checks[i].uri)
            THEN \A k \in DOMAIN requests[i] : requests[i][k].method = "GET"
            ELSE FirstMethod(i) = "HEAD"

\* a preferred origin went through a failed GET and a redirect-free end, and
\* another configuration's non-matching entry left the first request a HEAD
C3_Witness ==
    \E i \in Occurrences :
        /\ Remote(i)
        /\ Preferred(checks[i].uri)
        /\ checks[i].uri # opts.preferGET[1]
        /\ checks[i].pc = "fulfilled"
        /\ requests[i][1].outcome.type = "throw"

\* an occurrence on a.com is first requested with HEAD although preferGET
\* names a.com with another scheme and another port
C3_WitnessNoMatch ==
    \E i \in Occurrences :
        /\ Remote(i)
        /\ opts.preferGET # <<>>
        /\ ~Preferred(checks[i].uri)
        /\ FirstMethod(i) = "HEAD"

-----------------------------------------------------------------------------
(* C4: ignore filter *)

\* C4: an occurrence whose URI some pattern of the ignore list matches causes
\* no request, no filesystem access and no diagnostic, whatever the URI is.
C4_IgnoreFilter ==
    \A i \in Occurrences :
        (\E k \in DOMAIN opts.ignore : minimatch(URIs[i].uri, opts.ignore[k]))
        => /\ requests[i] = <<>>
           /\ accesses[i] = <<>>
           /\ reports[i] = <<>>
           /\ checks[i].pc = "fulfilled"

\* after Document:exit, a remote URI matched by the second pattern only and,
\* in another run, a relative URI without a base matched by a pattern
C4_Witness ==
    \E i \in Occurrences :
        /\ phase = "exit"
        /\ Len(opts.ignore) = 2
        /\ ~isRelative(URIs[i].uri)
        /\ ~minimatch(URIs[i].uri, opts.ignore[1])
        /\ minimatch(URIs[i].uri, opts.ignore[2])

C4_WitnessRelative ==
    \E i \in Occurrences :
        /\ phase = "exit"
        /\ isRelative(URIs[i].uri)
        /\ opts.checkRelative /\ opts.baseURI = Null /\ filePath = Undefined
        /\ \E k \in DOMAIN opts.ignore : minimatch(URIs[i].uri, opts.ignore[k])

-----------------------------------------------------------------------------
(* C5: relative URI without a base *)

NoBase == opts.baseURI \in {Null, Undefined, Plain("")} /\ filePath \in {Null, Undefined, Plain("")}

Started(i) ==
    \/ requests[i] # <<>>
    \/ accesses[i] # <<>>
    \/ checks[i].pc \in {"fulfilled", "rejected"}

\* C5: a relative occurrence that is not ignored, with checkRelative on and
\* neither a base URI nor a file path, gets exactly one diagnostic, at its
\* offset, with the resolution-error message and no fix, and causes no request
\* and no filesystem access; every other occurrence is checked all the same.
C5_NoBase ==
    \A i \in Occurrences :
        ( /\ ~(\E k \in DOMAIN opts.ignore : minimatch(URIs[i].uri, opts.ignore[k]))
          /\ ~HasHost(URIs[i].uri)
          /\ opts.checkRelative
          /\ NoBase )
        => /\ reports[i] =
                <<[node |-> URIs[i].node,
                   message |-> "Unable to resolve the relative URI. Please check if the base URI is correctly specified.",
                   index |-> URIs[i].index,
                   fix |-> Null]>>
           /\ requests[i] = <<>>
           /\ accesses[i] = <<>>
           /\ checks[i].pc = "fulfilled"
           /\ \A j \in Occurrences : Started(j)

\* the relative link got its resolution error next to a remote occurrence
\* that was probed and reported dead
C5_Witness ==
    \E i, j \in Occurrences :
        /\ isRelative(URIs[i].uri)
        /\ opts.checkRelative /\ NoBase
        /\ Len(reports[i]) = 1
        /\ reports[i][1].message = ResolutionError
        /\ j # i
        /\ Remote(j)
        /\ Len(reports[j]) = 1

-----------------------------------------------------------------------------
(* C6: redirect report *)

\* C6: when the first response of a remote occurrence has a redirect status S
\* and the request that follows redirects ends successfully at F, exactly one
\* diagnostic is reported; its message carries S and the status text of the
\* first response, not those of the final response, and its fix inserts F.
C6_RedirectReport ==
    \A i \in Occurrences :
        LET redirect(st) == st \in {301, 302, 303, 307, 308}
        IN  ( /\ FirstResponse(i, redirect)
              /\ Len(requests[i]) >= 2
              /\ requests[i][2].outcome.type = "response"
              /\ Success(requests[i][2].outcome.status) )
            => LET first == requests[i][1].outcome
                   final == requests[i][2].outcome
               IN  /\ Len(reports[i]) = 1
                   /\ reports[i][1].message =
                         requests[i][1].uri \o " is redirected to " \o final.url
                            \o ". (" \o ToString(first.status) \o " "
                            \o first.statusText \o ")"
                   /\ reports[i][1].message #
                         requests[i][1].uri \o " is redirected to " \o final.url
                            \o ". (" \o ToString(final.status) \o " "
                            \o final.statusText \o ")"
                   /\ reports[i][1].fix # Null
                   /\ reports[i][1].fix.text = final.url
                   /\ reports[i][1].index = URIs[i].index
                   /\ reports[i][1].node = URIs[i].node

\* a HEAD answered 301, followed to a 200 at the final URL
C6_Witness ==
    \E i \in Occurrences :
        /\ Len(requests[i]) = 2
        /\ requests[i][1].outcome.type = "response"
        /\ requests[i][1].outcome.status = 301
        /\ requests[i][2].redirect = "follow"
        /\ requests[i][2].outcome.type = "response"
        /\ requests[i][2].outcome.status = 200
        /\ requests[i][2].outcome.url = FinalURL
        /\ Len(reports[i]) = 1

-----------------------------------------------------------------------------
(* C7: redirect fix range *)

\* C7: the fix of a redirect diagnostic replaces the half-open range from the
\* occurrence's offset to that offset plus the length of the occurrence's URI
\* text as it stands in the document, also when the URI was resolved
\* against a base before it was probed.
C7_FixRange ==
    \A i \in Occurrences :
        \A d \in DOMAIN reports[i] :
            reports[i][d].fix # Null
            => reports[i][d].fix.range =
                 <<URIs[i].index, URIs[i].index + Len(Text(URIs[i].uri))>>

-----------------------------------------------------------------------------
(* C8: join-all barrier *)

InFlight(i) == checks[i].pc \in {"fetch", "follow", "access"}

\* C8: the Document:exit operation neither completes nor fails while a check
\* is still in flight, whatever the outcome of the other checks.
C8_JoinAll ==
    exitPromise \in {"fulfilled", "rejected"}
    => \A i \in Occurrences : ~InFlight(i)

-----------------------------------------------------------------------------
(* C9: deferred probing *)

IsPrefix(s, t) == Len(s) <= Len(t) /\ SubSeq(t, 1, Len(s)) = s

NothingProbed ==
    /\ \A i \in DOMAIN requests : requests[i] = <<>>
    /\ \A i \in DOMAIN accesses : accesses[i] = <<>>
    /\ \A i \in DOMAIN reports : reports[i] = <<>>
    /\ checks = <<>>
    /\ exitPromise = "none"

\* C9: before Document:exit nothing is requested, accessed or reported, and
\* a visit of a Str or Link node only appends to the occurrence list.
C9_Deferred ==
    /\ [](phase = "traverse" => NothingProbed)
    /\ [][ (phase = "traverse" /\ phase' = "traverse")
            => /\ IsPrefix(URIs, URIs')
               /\ UNCHANGED <<opts, filePath, checks, requests, accesses, reports,
                              exitPromise>> ]_vars

\* two nodes were visited, both left an occurrence, and nothing is probed yet
C9_Witness ==
    /\ phase = "traverse"
    /\ Cardinality(visited) = 2
    /\ Len(URIs) = 2
    /\ URIs[1].node # URIs[2].node
    /\ NothingProbed

-----------------------------------------------------------------------------
(* C10: at most one diagnostic per occurrence *)

\* C10: once Document:exit has run, every occurrence of the list has its one
\* check; a check gets at most one probe result and reports at most one
\* diagnostic, and none when its probe result is ok and not redirected.
C10_AtMostOne ==
    phase = "exit" =>
        /\ DOMAIN checks = 1..Len(URIs)
        /\ \A i \in Occurrences :
              /\ Started(i)
              /\ Len(checks[i].results) <= 1
              /\ Len(reports[i]) <= 1
              /\ \A r \in DOMAIN checks[i].results :
                    (checks[i].results[r].ok /\ ~checks[i].results[r].redirected)
                    => reports[i] = <<>>

\* every check of a two-occurrence document has ended: one with a result that
\* is redirected and not ok, the other with a result that is ok
C10_Witness ==
    /\ Len(URIs) = 2
    /\ \A i \in Occurrences : checks[i].pc = "fulfilled"
    /\ \E i, j \in Occurrences :
          /\ Len(checks[i].results) = 1
          /\ checks[i].results[1].redirected
          /\ ~checks[i].results[1].ok
          /\ Len(reports[i]) = 1
          /\ Len(checks[j].results) = 1
          /\ checks[j].results[1].ok
          /\ ~checks[j].results[1].redirected
          /\ reports[j] = <<>>

-----------------------------------------------------------------------------
(* C11: dead-link report *)

\* C11: a probe result with ok = false gives exactly one diagnostic, at the
\* occurrence's offset, with the message "<uri> is dead. (<message>)" for the
\* URI that was probed, and no fix; also when the result has redirected = true.
C11_DeadReport ==
    \A i \in Occurrences :
        \A r \in DOMAIN checks[i].results :
            ~checks[i].results[r].ok
            => /\ Len(reports[i]) = 1
               /\ reports[i][1].message =
                     Text(checks[i].uri) \o " is dead. ("
                        \o checks[i].results[r].message \o ")"
               /\ reports[i][1].index = URIs[i].index
               /\ reports[i][1].node = URIs[i].node
               /\ reports[i][1].fix = Null

\* a 301 followed to a 404: redirected and not ok, reported as dead with the
\* status of the redirect
C11_Witness ==
    \E i \in Occurrences :
        /\ Len(checks[i].results) = 1
        /\ checks[i].results[1].redirected
        /\ ~checks[i].results[1].ok
        /\ Len(reports[i]) = 1
        /\ reports[i][1].message = "https://a.com/x is dead. (301 Moved Permanently)"

-----------------------------------------------------------------------------
(* C12: local check *)

\* C12: an occurrence that is not ignored and whose URI, after resolution, has
\* no host is checked with exactly one filesystem access and no request,
\* whatever preferGET holds; a failed access gives exactly one dead-link
\* diagnostic with the text of the access error, a successful one gives none.
C12_LocalCheck ==
    \A i \in Occurrences :
        (checks[i].uri # Undefined /\ ~HasHost(checks[i].uri))
        => /\ requests[i] = <<>>
           /\ Len(accesses[i]) = 1
           /\ accesses[i][1].outcome.type = "pending"
                 => reports[i] = <<>> /\ checks[i].pc = "access"
           /\ accesses[i][1].outcome.type = "ok"
                 => reports[i] = <<>> /\ checks[i].pc = "fulfilled"
           /\ accesses[i][1].outcome.type = "throw"
                 => /\ checks[i].pc = "fulfilled"
                    /\ Len(reports[i]) = 1
                    /\ reports[i][1].message =
                          DeadMessage(Text(checks[i].uri),
                                      accesses[i][1].outcome.message)
                    /\ reports[i][1].fix = Null

\* a relative link resolved against the file path, with a preferGET list that
\* is not empty, failed its one access and was reported
C12_Witness ==
    \E i \in Occurrences :
        /\ opts.preferGET # <<>>
        /\ isRelative(URIs[i].uri)
        /\ checks[i].uri = U(<<"", "docs", "foo">>)
        /\ accesses[i][1].outcome.type = "throw"
        /\ Len(reports[i]) = 1

-----------------------------------------------------------------------------
(* C13: link offset *)

\* C13: the offset recorded for a link node with a URL is the position of the
\* URL in the node's raw source when it occurs there and 0 when it does not;
\* hence every offset in the occurrence list, every diagnostic offset and the
\* start of every fix range is at least 0.
C13_LinkOffset ==
    /\ \A k \in DOMAIN URIs :
          LET node == Nodes[URIs[k].node]
          IN  /\ URIs[k].index >= 0
              /\ node.type = "Link"
                   => LET at == indexOf(node.raw, node.url, 0)
                      IN  URIs[k].index = IF at = -1 THEN 0 ELSE at
    /\ \A i \in Occurrences :
          \A d \in DOMAIN reports[i] :
              /\ reports[i][d].index >= 0
              /\ reports[i][d].fix # Null => reports[i][d].fix.range[1] >= 0

-----------------------------------------------------------------------------
(* C14: checkRelative disabled *)

NotIgnored(i) ==
    ~(\E k \in DOMAIN opts.ignore : minimatch(URIs[i].uri, opts.ignore[k]))

\* C14: with checkRelative off, an occurrence that is not ignored and has no
\* host is not resolved and causes no request, no filesystem access and no
\* diagnostic, with or without a base; an occurrence that is not ignored and
\* has a host is probed at its own URI.
C14_CheckRelativeOff ==
    \A i \in Occurrences :
        /\ (~opts.checkRelative /\ NotIgnored(i) /\ ~HasHost(URIs[i].uri))
           => /\ checks[i].uri = Undefined
              /\ requests[i] = <<>>
              /\ accesses[i] = <<>>
              /\ reports[i] = <<>>
              /\ checks[i].pc = "fulfilled"
        /\ (~opts.checkRelative /\ NotIgnored(i) /\ HasHost(URIs[i].uri))
           => /\ Remote(i)
              /\ requests[i][1].uri = Text(URIs[i].uri)
              /\ accesses[i] = <<>>

\* checkRelative is off and a base URI is set: the relative link was left
\* alone while the link with a host was probed and reported dead
C14_Witness ==
    /\ ~opts.checkRelative
    /\ opts.baseURI = RemoteBase
    /\ \E i, j \in Occurrences :
          /\ URIs[i].uri = UriRel
          /\ NotIgnored(i)
          /\ checks[i].pc = "fulfilled"
          /\ requests[i] = <<>>
          /\ reports[i] = <<>>
          /\ HasHost(URIs[j].uri)
          /\ Remote(j)
          /\ Len(reports[j]) = 1

-----------------------------------------------------------------------------
(* C15: placeholder links *)

Placeholder(n) ==
    Nodes[n].type = "Link" /\ Nodes[n].url \in {Undefined, Plain("")}

\* C15: a link node whose target is absent or empty appends no occurrence,
\* so it causes no request, no filesystem access, no diagnostic and no
\* rejection of Document:exit.
C15_Placeholder ==
    /\ \A k \in DOMAIN URIs : ~Placeholder(URIs[k].node)
    /\ \A i \in Occurrences :
          Placeholder(URIs[i].node)
          => /\ requests[i] = <<>>
             /\ accesses[i] = <<>>
             /\ reports[i] = <<>>
             /\ checks[i].pc # "rejected"

-----------------------------------------------------------------------------
(* C16: two-step redirect handling *)

\* request k of check i was made with manual redirects and got a response
\* with a redirect status
RedirectAnswer(i, k) ==
    /\ requests[i][k].redirect = "manual"
    /\ requests[i][k].outcome.type = "response"
    /\ requests[i][k].outcome.status \in {301, 302, 303, 307, 308}

\* C16: when a request with manual redirects gets a redirect status, the next
\* request goes to the same URI with the same method and follows redirects;
\* when that request gets a response it is the last request of the check, and
\* the one probe result has ok of the final response, redirected = true, the
\* final URL as target and the status and text of the first response.
C16_TwoStep ==
    \A i \in Occurrences :
        \A k \in DOMAIN requests[i] :
            RedirectAnswer(i, k)
            => /\ k + 1 \in DOMAIN requests[i]
               /\ requests[i][k + 1].method = requests[i][k].method
               /\ requests[i][k + 1].uri = requests[i][k].uri
               /\ requests[i][k + 1].redirect = "follow"
               /\ requests[i][k + 1].outcome.type = "response"
                    => LET first == requests[i][k].outcome
                           final == requests[i][k + 1].outcome
                       IN  /\ Len(requests[i]) = k + 1
                           /\ checks[i].pc = "fulfilled"
                           /\ checks[i].results =
                                <<[ok |-> Success(final.status),
                                   redirected |-> TRUE,
                                   redirectTo |-> final.url,
                                   message |-> ToString(first.status) \o " "
                                                 \o first.statusText]>>

\* a HEAD answered 301 and followed to a 404: the probe ended there, with no
\* GET request
C16_Witness ==
    \E i \in Occurrences :
        /\ Len(requests[i]) = 2
        /\ requests[i][1].method = "HEAD"
        /\ RedirectAnswer(i, 1)
        /\ requests[i][2].method = "HEAD"
        /\ requests[i][2].outcome.type = "response"
        /\ requests[i][2].outcome.status = 404
        /\ checks[i].pc = "fulfilled"
        /\ ~checks[i].results[1].ok

-----------------------------------------------------------------------------
(* C17: bounded retry *)

\* the requests of check i made with method m
WithMethod(i, m) == {k \in DOMAIN requests[i] : requests[i][k].method = m}

\* C17: a check issues at most four requests: at most one attempt with HEAD
\* and then at most one with GET, each of one request with manual redirects
\* and at most one that follows redirects; no HEAD comes after a GET, only the
\* last request can be pending, and when the GET attempt ends the probe has
\* returned its one result.
C17_BoundedRetry ==
    \A i \in Occurrences :
        /\ Len(requests[i]) <= 4
        /\ \A k \in DOMAIN requests[i] :
              /\ requests[i][k].method \in {"HEAD", "GET"}
              /\ k < Len(requests[i]) => requests[i][k].outcome.type # "pending"
        /\ \A m \in {"HEAD", "GET"} :
              /\ Cardinality(WithMethod(i, m)) <= 2
              /\ Cardinality({k \in WithMethod(i, m) :
                                 requests[i][k].redirect = "manual"}) <= 1
        /\ \A k, l \in DOMAIN requests[i] :
              (requests[i][k].method = "GET" /\ k < l)
              => requests[i][l].method = "GET"
        /\ \A k \in WithMethod(i, "GET") :
              (requests[i][k].outcome.type # "pending" /\ ~RedirectAnswer(i, k))
              => /\ k = Len(requests[i])
                 /\ checks[i].pc = "fulfilled"
                 /\ Len(checks[i].results) = 1

\* four requests: the HEAD was redirected and its follow-up failed, the GET
\* was redirected and its follow-up failed too, and the probe returned
C17_Witness ==
    \E i \in Occurrences :
        /\ Len(requests[i]) = 4
        /\ RedirectAnswer(i, 1)
        /\ requests[i][2].outcome.type = "throw"
        /\ requests[i][3].method = "GET"
        /\ RedirectAnswer(i, 3)
        /\ requests[i][4].outcome.type = "throw"
        /\ checks[i].pc = "fulfilled"

-----------------------------------------------------------------------------
(* C18: failure of the follow-up request *)

\* request k of check i got a redirect status and the request after it, which
\* follows redirects, threw
FollowThrew(i, k) ==
    /\ RedirectAnswer(i, k)
    /\ k + 1 \in DOMAIN requests[i]
    /\ requests[i][k + 1].outcome.type = "throw"

\* C18: when the request that follows a redirect throws, a HEAD attempt is
\* followed by a GET request with manual redirects to the same URI; a GET
\* attempt ends the probe with ok = false, not redirected, and the text of the
\* exception, and the one diagnostic is a dead-link report without a fix whose
\* message does not carry the status of the redirect.
C18_FollowFails ==
    \A i \in Occurrences :
        \A k \in DOMAIN requests[i] :
            FollowThrew(i, k)
            => IF requests[i][k].method = "HEAD"
               THEN /\ k + 2 \in DOMAIN requests[i]
                    /\ requests[i][k + 2].method = "GET"
                    /\ requests[i][k + 2].redirect = "manual"
                    /\ requests[i][k + 2].uri = requests[i][k].uri
               ELSE LET text == requests[i][k + 1].outcome.message
                        first == requests[i][k].outcome
                    IN  /\ Len(requests[i]) = k + 1
                        /\ checks[i].pc = "fulfilled"
                        /\ checks[i].results =
                             <<[ok |-> FALSE, redirected |-> FALSE,
                                redirectTo |-> Undefined, message |-> text]>>
                        /\ Len(reports[i]) = 1
                        /\ reports[i][1].message =
                              DeadMessage(requests[i][k].uri, text)
                        /\ reports[i][1].message #
                              DeadMessage(requests[i][k].uri,
                                          ToString(first.status) \o " "
                                             \o first.statusText)
                        /\ reports[i][1].fix = Null

\* a GET chosen by preferGET was redirected, its follow-up threw, and the
\* occurrence was reported dead
C18_Witness ==
    \E i \in Occurrences :
        /\ Len(requests[i]) = 2
        /\ requests[i][1].method = "GET"
        /\ FollowThrew(i, 1)
        /\ Len(reports[i]) = 1
        /\ reports[i][1].fix = Null

-----------------------------------------------------------------------------
(* C19: join liveness *)

\* check i waits for a request or a filesystem access that has not settled
Waiting(i) ==
    \/ \E k \in DOMAIN requests[i] : requests[i][k].outcome.type = "pending"
    \/ \E k \in DOMAIN accesses[i] : accesses[i][k].outcome.type = "pending"

\* C19: once every issued request and filesystem access has settled, every
\* check has settled and Document:exit has completed; and as long as a request
\* or an access has not settled, Document:exit has not completed, so that it
\* never completes when that request never settles.
C19_JoinLiveness ==
    phase = "exit" =>
        /\ (\A i \in Occurrences : ~Waiting(i))
           => /\ \A i \in Occurrences : checks[i].pc \in {"fulfilled", "rejected"}
              /\ exitPromise \in {"fulfilled", "rejected"}
        /\ (\E i \in Occurrences : Waiting(i)) => exitPromise = "pending"

-----------------------------------------------------------------------------
(* C20: interleaving independence *)

\* the result the probe of check i returns for the answers it got
ResultAlone(i) ==
    IF accesses[i] # <<>>
    THEN (IF accesses[i][1].outcome.type = "ok"
          THEN [ok |-> TRUE, redirected |-> FALSE, redirectTo |-> Undefined,
                message |-> Undefined]
          ELSE FailedResult(accesses[i][1].outcome.message))
    ELSE LET n == Len(requests[i])
             last == requests[i][n]
         IN  IF last.outcome.type = "throw" THEN FailedResult(last.outcome.message)
             ELSE IF last.redirect = "follow"
             THEN RedirectResult(requests[i][n - 1].outcome, last.outcome)
             ELSE PlainResult(last.outcome)

\* what check i reports when it runs on its own with the answers it got
ReportsAlone(i) ==
    LET start == LintStart(URIs[i])
    IN  IF start.check.pc \in {"fulfilled", "rejected"} THEN start.report
        ELSE IF checks[i].pc # "fulfilled" THEN <<>>
        ELSE Verdict(URIs[i], start.check.uri, ResultAlone(i))

\* C20: what a check has reported is what it reports on its own for its
\* occurrence, the options and the answers to its own requests, whatever the
\* other checks did in between; after Document:exit has started a step changes
\* the state of one check only, and the occurrence list does not change.
C20_Independence ==
    /\ [](\A i \in Occurrences : reports[i] = ReportsAlone(i))
    /\ [][ phase = "exit"
            => /\ URIs' = URIs
               /\ DOMAIN checks' = DOMAIN checks
               /\ \E i \in Occurrences :
                     \A j \in Occurrences \ {i} :
                        /\ checks'[j] = checks[j]
                        /\ requests'[j] = requests[j]
                        /\ accesses'[j] = accesses[j]
                        /\ reports'[j] = reports[j] ]_vars

\* the second check ran to its report, over two requests, while the first
\* check was still waiting for the answer to its second request
C20_Witness ==
    /\ phase = "exit"
    /\ Len(URIs) = 2
    /\ Len(requests[1]) = 2
    /\ checks[1].pc \in {"fetch", "follow"}
    /\ Len(requests[2]) = 2
    /\ checks[2].pc = "fulfilled"
    /\ Len(reports[2]) = 1

====
